---- MODULE Spec2Model ----
(***************************************************************************)
(* Model of the quantitative core of src/VnInvestmentAnalyzer.jsx: the     *)
(* bond analytics functions (calculateDuration, calculateModifiedDuration, *)
(* calculateConvexity), the Box-Muller sampler randomNormal and the Monte  *)
(* Carlo handler runMonteCarloSimulation with its helpers getPercentile    *)
(* and createHistogram.                                                    *)
(*                                                                         *)
(* JavaScript numbers are modelled as exact rationals extended with the    *)
(* IEEE special values NaN, +Infinity, -Infinity, and with the JavaScript  *)
(* value undefined.  A number is a record [k, n, d]:                       *)
(*   k = "fin"   the rational n/d, d > 0, in lowest terms                  *)
(*   k = "inf"   +Infinity (n = 1) or -Infinity (n = -1)                   *)
(*   k = "nan"   NaN                                                       *)
(*   k = "undef" undefined (an out-of-range array read)                    *)
(* Rounding error and the sign of zero are not modelled.                   *)
(***************************************************************************)
EXTENDS Integers, Sequences, FiniteSets, TLC

\* ------------------------------------------------------------------------
\* JavaScript number arithmetic
\* ------------------------------------------------------------------------

Abs(x) == IF x < 0 THEN -x ELSE x

Sign(x) == IF x < 0 THEN -1 ELSE IF x > 0 THEN 1 ELSE 0

RECURSIVE GCD(_, _)
GCD(a, b) == IF b = 0 THEN a ELSE GCD(b, a % b)

NaN == [k |-> "nan", n |-> 0, d |-> 0]

PosInf == [k |-> "inf", n |-> 1, d |-> 0]

NegInf == [k |-> "inf", n |-> -1, d |-> 0]

Undefined == [k |-> "undef", n |-> 0, d |-> 0]

InfOf(s) == IF s < 0 THEN NegInf ELSE PosInf

\* the rational n/d (d # 0) in lowest terms with a positive denominator
Rat(n, d) ==
  LET g == GCD(Abs(n), Abs(d))
      s == IF d < 0 THEN -1 ELSE 1
  IN  [k |-> "fin", n |-> s * (n \div g), d |-> s * (d \div g)]

Num(i) == [k |-> "fin", n |-> i, d |-> 1]

IsFin(a) == a.k = "fin"

IsNaN(a) == a.k \in {"nan", "undef"}

IsInf(a) == a.k = "inf"

\* Number.isFinite
IsFiniteNumber(a) == a.k = "fin"

Neg(a) == IF IsNaN(a) THEN NaN ELSE [a EXCEPT !.n = -a.n]

\* a + b
Add(a, b) ==
  IF IsNaN(a) \/ IsNaN(b) THEN NaN
  ELSE IF IsInf(a) /\ IsInf(b) THEN (IF a.n = b.n THEN a ELSE NaN)
  ELSE IF IsInf(a) THEN a
  ELSE IF IsInf(b) THEN b
  ELSE LET g == GCD(a.d, b.d)
           l == (a.d \div g) * b.d
       IN  Rat(a.n * (l \div a.d) + b.n * (l \div b.d), l)

\* a - b
Sub(a, b) == Add(a, Neg(b))

\* a * b
Mul(a, b) ==
  IF IsNaN(a) \/ IsNaN(b) THEN NaN
  ELSE IF IsInf(a) \/ IsInf(b)
       THEN (IF a.n = 0 \/ b.n = 0 THEN NaN ELSE InfOf(Sign(a.n) * Sign(b.n)))
  ELSE IF a.n = 0 \/ b.n = 0 THEN Num(0)
  ELSE LET g1 == GCD(Abs(a.n), b.d)
           g2 == GCD(Abs(b.n), a.d)
       IN  [k |-> "fin",
            n |-> (a.n \div g1) * (b.n \div g2),
            d |-> (a.d \div g2) * (b.d \div g1)]

\* a / b
Div(a, b) ==
  IF IsNaN(a) \/ IsNaN(b) THEN NaN
  ELSE IF IsInf(a) /\ IsInf(b) THEN NaN
  ELSE IF IsInf(a) THEN InfOf(a.n * (IF b.n < 0 THEN -1 ELSE 1))
  ELSE IF IsInf(b) THEN Num(0)
  ELSE IF b.n = 0 THEN (IF a.n = 0 THEN NaN ELSE InfOf(a.n))
  ELSE Mul(a, Rat(b.d, b.n))

\* Math.pow(a, t) for an integer exponent t
RECURSIVE Pow(_, _)
Pow(a, t) ==
  IF t = 0 THEN Num(1)
  ELSE IF t < 0 THEN Div(Num(1), Pow(a, -t))
  ELSE Mul(a, Pow(a, t - 1))

\* Math.floor(a)
Floor(a) ==
  IF IsNaN(a) THEN NaN
  ELSE IF IsInf(a) THEN a
  ELSE Num(a.n \div a.d)

\* a < b (false as soon as an operand is NaN or undefined)
Less(a, b) ==
  IF IsNaN(a) \/ IsNaN(b) THEN FALSE
  ELSE IF IsInf(a) THEN a.n < 0 /\ ~(IsInf(b) /\ b.n < 0)
  ELSE IF IsInf(b) THEN b.n > 0
  ELSE LET g == GCD(a.d, b.d)
       IN  a.n * (b.d \div g) < b.n * (a.d \div g)

\* a <= b (false as soon as an operand is NaN or undefined)
Leq(a, b) ==
  IF IsNaN(a) \/ IsNaN(b) THEN FALSE ELSE ~Less(b, a)

\* Math.min(a, b)
MathMin2(a, b) ==
  IF IsNaN(a) \/ IsNaN(b) THEN NaN
  ELSE IF Less(b, a) THEN b ELSE a

\* Math.max(a, b)
MathMax2(a, b) ==
  IF IsNaN(a) \/ IsNaN(b) THEN NaN
  ELSE IF Less(a, b) THEN b ELSE a

\* Math.min(...data): Infinity for an empty array
RECURSIVE MathMin(_)
MathMin(data) ==
  IF data = <<>> THEN PosInf ELSE MathMin2(Head(data), MathMin(Tail(data)))

\* Math.max(...data): -Infinity for an empty array
RECURSIVE MathMax(_)
MathMax(data) ==
  IF data = <<>> THEN NegInf ELSE MathMax2(Head(data), MathMax(Tail(data)))

\* ------------------------------------------------------------------------
\* Bond analytics
\* ------------------------------------------------------------------------

faceValue == 100

\* a coupon loop that stops one period early: for (t = 1; t < periods; t++)
RECURSIVE DurationLoopSkipsLast(_, _, _, _, _, _, _)
DurationLoopSkipsLast(t, periods, couponPayment, ytm, frequency, duration, price) ==
  IF t >= periods THEN <<duration, price>>
  ELSE LET pv == Div(couponPayment, Pow(Add(Num(1), Div(ytm, Num(frequency))), t))
       IN  DurationLoopSkipsLast(t + 1, periods, couponPayment, ytm, frequency,
                                 Add(duration, Mul(Div(Num(t), Num(frequency)), pv)),
                                 Add(price, pv))

\* a coupon loop that weights period t by its period count t
RECURSIVE DurationLoopPeriodWeights(_, _, _, _, _, _, _)
DurationLoopPeriodWeights(t, periods, couponPayment, ytm, frequency, duration, price) ==
  IF t > periods THEN <<duration, price>>
  ELSE LET pv == Div(couponPayment, Pow(Add(Num(1), Div(ytm, Num(frequency))), t))
       IN  DurationLoopPeriodWeights(t + 1, periods, couponPayment, ytm, frequency,
                                     Add(duration, Mul(Num(t), pv)),
                                     Add(price, pv))

\* the coupon loop of calculateDuration: for (t = 1; t <= periods; t++),
\* returning the accumulators <<duration, price>>
RECURSIVE DurationLoop(_, _, _, _, _, _, _)
DurationLoop(t, periods, couponPayment, ytm, frequency, duration, price) ==
  IF t > periods THEN <<duration, price>>
  ELSE LET pv == Div(couponPayment, Pow(Add(Num(1), Div(ytm, Num(frequency))), t))
       IN  DurationLoop(t + 1, periods, couponPayment, ytm, frequency,
                        Add(duration, Mul(Div(Num(t), Num(frequency)), pv)),
                        Add(price, pv))

\* a duration that weights the principal by its period count, not its years
calculateDurationInPeriods(couponRate, maturity, ytm, frequency) ==
  LET couponPayment == Div(Mul(couponRate, Num(faceValue)), Num(frequency))
      periods == maturity * frequency
      acc == DurationLoop(1, periods, couponPayment, ytm, frequency, Num(0), Num(0))
      principalPV == Div(Num(faceValue),
                         Pow(Add(Num(1), Div(ytm, Num(frequency))), periods))
      duration == Add(acc[1], Mul(Num(periods), principalPV))
      price == Add(acc[2], principalPV)
  IN  Div(duration, price)

calculateDuration(couponRate, maturity, ytm, frequency) ==
  LET couponPayment == Div(Mul(couponRate, Num(faceValue)), Num(frequency))
      periods == maturity * frequency
      acc == DurationLoop(1, periods, couponPayment, ytm, frequency, Num(0), Num(0))
      principalPV == Div(Num(faceValue),
                         Pow(Add(Num(1), Div(ytm, Num(frequency))), periods))
      duration == Add(acc[1], Mul(Num(maturity), principalPV))
      price == Add(acc[2], principalPV)
  IN  Div(duration, price)

\* a modified duration that multiplies by the discount base
calculateModifiedDurationTimesBase(macaulayDuration, ytm, frequency) ==
  Mul(macaulayDuration, Add(Num(1), Div(ytm, Num(frequency))))

calculateModifiedDuration(macaulayDuration, ytm, frequency) ==
  Div(macaulayDuration, Add(Num(1), Div(ytm, Num(frequency))))

\* a coupon loop that weights period t by t * t
RECURSIVE ConvexityLoopSquares(_, _, _, _, _, _, _)
ConvexityLoopSquares(t, periods, couponPayment, ytm, frequency, convexity, price) ==
  IF t > periods THEN <<convexity, price>>
  ELSE LET pv == Div(couponPayment, Pow(Add(Num(1), Div(ytm, Num(frequency))), t))
       IN  ConvexityLoopSquares(t + 1, periods, couponPayment, ytm, frequency,
                                Add(convexity,
                                    Div(Mul(Num(t * t), pv), Pow(Num(frequency), 2))),
                                Add(price, pv))

\* the coupon loop of calculateConvexity, returning <<convexity, price>>
RECURSIVE ConvexityLoop(_, _, _, _, _, _, _)
ConvexityLoop(t, periods, couponPayment, ytm, frequency, convexity, price) ==
  IF t > periods THEN <<convexity, price>>
  ELSE LET pv == Div(couponPayment, Pow(Add(Num(1), Div(ytm, Num(frequency))), t))
       IN  ConvexityLoop(t + 1, periods, couponPayment, ytm, frequency,
                         Add(convexity,
                             Div(Mul(Num(t * (t + 1)), pv), Pow(Num(frequency), 2))),
                         Add(price, pv))

\* a convexity whose principal term is weighted by periods * periods
calculateConvexityPrincipalSquared(couponRate, maturity, ytm, frequency) ==
  LET couponPayment == Div(Mul(couponRate, Num(faceValue)), Num(frequency))
      periods == maturity * frequency
      acc == ConvexityLoop(1, periods, couponPayment, ytm, frequency, Num(0), Num(0))
      principalPV == Div(Num(faceValue),
                         Pow(Add(Num(1), Div(ytm, Num(frequency))), periods))
      convexity == Add(acc[1],
                       Div(Mul(Num(periods * periods), principalPV),
                           Pow(Num(frequency), 2)))
      price == Add(acc[2], principalPV)
  IN  Div(convexity, Mul(price, Pow(Add(Num(1), Div(ytm, Num(frequency))), 2)))

\* a convexity that subtracts the principal's term
calculateConvexityMinusPrincipal(couponRate, maturity, ytm, frequency) ==
  LET couponPayment == Div(Mul(couponRate, Num(faceValue)), Num(frequency))
      periods == maturity * frequency
      acc == ConvexityLoop(1, periods, couponPayment, ytm, frequency, Num(0), Num(0))
      principalPV == Div(Num(faceValue),
                         Pow(Add(Num(1), Div(ytm, Num(frequency))), periods))
      convexity == Sub(acc[1],
                       Div(Mul(Num(periods * (periods + 1)), principalPV),
                           Pow(Num(frequency), 2)))
      price == Add(acc[2], principalPV)
  IN  Div(convexity, Mul(price, Pow(Add(Num(1), Div(ytm, Num(frequency))), 2)))

calculateConvexity(couponRate, maturity, ytm, frequency) ==
  LET couponPayment == Div(Mul(couponRate, Num(faceValue)), Num(frequency))
      periods == maturity * frequency
      acc == ConvexityLoop(1, periods, couponPayment, ytm, frequency, Num(0), Num(0))
      principalPV == Div(Num(faceValue),
                         Pow(Add(Num(1), Div(ytm, Num(frequency))), periods))
      convexity == Add(acc[1],
                       Div(Mul(Num(periods * (periods + 1)), principalPV),
                           Pow(Num(frequency), 2)))
      price == Add(acc[2], principalPV)
  IN  Div(convexity, Mul(price, Pow(Add(Num(1), Div(ytm, Num(frequency))), 2)))

\* an approximation that returns the new price, not the change
priceChangeWithConvexityNewPrice(price, modDuration, convexity, yieldChange) ==
  LET durationEffect == Mul(Mul(Neg(modDuration), yieldChange), price)
      convexityEffect ==
        Mul(Mul(Mul(Rat(1, 2), convexity), Pow(yieldChange, 2)), price)
  IN  Add(price, Add(durationEffect, convexityEffect))

priceChangeWithConvexity(price, modDuration, convexity, yieldChange) ==
  LET durationEffect == Mul(Mul(Neg(modDuration), yieldChange), price)
      convexityEffect ==
        Mul(Mul(Mul(Rat(1, 2), convexity), Pow(yieldChange, 2)), price)
  IN  Add(durationEffect, convexityEffect)

\* ------------------------------------------------------------------------
\* Box-Muller sampler
\* ------------------------------------------------------------------------

\* The values Math.random() returns, as numerators over 3: 0, 1/3, 2/3.
Uniforms == {0, 1, 2}

\* Math.sqrt(-2.0 * Math.log(u)) on that grid, to the nearest half:
\* log(0) = -Infinity, sqrt(-2 ln(1/3)) = 1.48.., sqrt(-2 ln(2/3)) = 0.90..
SqrtNeg2Log(u) ==
  CASE u = 0 -> PosInf
    [] u = 1 -> Rat(3, 2)
    [] u = 2 -> Num(1)

\* Math.cos(2.0 * Math.PI * u) on that grid: cos(0), cos(2pi/3), cos(4pi/3)
Cos2Pi(u) ==
  CASE u = 0 -> Num(1)
    [] u = 1 -> Rat(-1, 2)
    [] u = 2 -> Rat(-1, 2)

\* a sampler that does not scale the deviate by stdDev
BoxMullerUnscaled(u1, u2, mean, stdDev) ==
  LET z0 == Mul(SqrtNeg2Log(u1), Cos2Pi(u2))
  IN  Add(z0, mean)

\* the last two lines of randomNormal, for the uniform variates u1 and u2
\* its two loops ended with
BoxMuller(u1, u2, mean, stdDev) ==
  LET z0 == Mul(SqrtNeg2Log(u1), Cos2Pi(u2))
  IN  Add(Mul(z0, stdDev), mean)

\* ------------------------------------------------------------------------
\* Helpers of the simulation callback
\* ------------------------------------------------------------------------

initialInvestment == 200000000

\* the insertion of a descending sort, (a, b) => b - a
RECURSIVE InsertDescending(_, _)
InsertDescending(x, s) ==
  IF s = <<>> THEN <<x>>
  ELSE IF Less(x, Head(s)) THEN <<Head(s)>> \o InsertDescending(x, Tail(s))
  ELSE <<x>> \o s

\* arr.sort((a, b) => a - b)
RECURSIVE Insert(_, _)
Insert(x, s) ==
  IF s = <<>> THEN <<x>>
  ELSE IF Less(Head(s), x) THEN <<Head(s)>> \o Insert(x, Tail(s))
  ELSE <<x>> \o s

RECURSIVE SortAscending(_)
SortAscending(s) ==
  IF s = <<>> THEN <<>> ELSE Insert(Head(s), SortAscending(Tail(s)))

\* arr[index] for a JavaScript number index (arrays are 0-based)
ArrayGet(arr, index) ==
  IF IsFin(index) /\ index.d = 1 /\ index.n >= 0 /\ index.n < Len(arr)
  THEN arr[index.n + 1]
  ELSE Undefined

getPercentile(arr, percentile) ==
  LET index == Floor(Mul(Num(Len(arr)), percentile))
  IN  ArrayGet(arr, index)

\* a bin index without the clamp to the last bin
BinIndexUnclamped(value, min, binSize, bins) ==
  Floor(Div(Sub(value, min), binSize))

\* the bin index createHistogram computes for one value
BinIndex(value, min, binSize, bins) ==
  MathMin2(Floor(Div(Sub(value, min), binSize)), Num(bins - 1))

\* createHistogram(data, name, color) for bins >= 0; histogram[binIndex]++
\* changes an element of the array only when binIndex is one of its indices
\* (any other binIndex, NaN included, sets a property map() does not visit)
createHistogram(data, bins) ==
  LET min == MathMin(data)
      max == MathMax(data)
      binSize == Div(Sub(max, min), Num(bins))
      binIndex == [j \in 1..Len(data) |-> BinIndex(data[j], min, binSize, bins)]
      histogram == [i \in 1..bins |->
                      Cardinality({j \in 1..Len(data) : binIndex[j] = Num(i - 1)})]
  IN  [i \in 1..bins |->
         [value |-> Add(min, Mul(Rat(2 * (i - 1) + 1, 2), binSize)),
          count |-> histogram[i]]]

\* avgPathData of the callback
AvgPathData(years, cMean, pMean) ==
  [y \in 1..(years + 1) |->
     [year |-> y - 1,
      optionC_expected |-> Mul(Num(initialInvestment), Pow(Add(Num(1), cMean), y - 1)),
      portfolio_expected |-> Mul(Num(initialInvestment), Pow(Add(Num(1), pMean), y - 1))]]

Min(a, b) == IF a < b THEN a ELSE b

\* ------------------------------------------------------------------------
\* State
\* ------------------------------------------------------------------------

VARIABLES
  cfg,                \* the constants of the callback: trials, years,
                      \* pathsToShow, bins, the two distributions
  simulationResults,  \* React state: Null or <<results>>
  isSimulating,       \* React state
  timers,             \* callbacks scheduled by setTimeout and not yet run
  clicksLeft,         \* clicks on Run Simulation the user still makes
  pc,                 \* position of the running callback, "idle" when none
  loc,                \* the local variables of the running callback
  bond,               \* inputs and results of the bond functions
  stat,               \* inputs and results of getPercentile/createHistogram
  chat                \* the chat: React state and the requests awaiting a response

vars == <<cfg, simulationResults, isSimulating, timers, clicksLeft, pc, loc, bond, stat,
          chat>>

Null == <<>>

\* bounds of the model
MaxTrials == 2

MaxYears == 2

MaxPaths == 3

\* configurations in which both distributions have variance are explored
\* for at most this many trial-years
MaxJointTrialYears == 4

HistogramBins == 50

\* the code's option C distribution (9%, 12%), its portfolio distribution
\* rounded to whole percents (8%, 4%), and the distribution without variance
OptionCParams == {[mean |-> Rat(9, 100), stdDev |-> Rat(12, 100)],
                  [mean |-> Num(0), stdDev |-> Num(0)]}

PortfolioParams == {[mean |-> Rat(8, 100), stdDev |-> Rat(4, 100)],
                    [mean |-> Num(0), stdDev |-> Num(0)]}

HasVariance(p) == p.stdDev # Num(0)

Configs ==
  {c \in [trials : 1..MaxTrials, years : 1..MaxYears, pathsToShow : 0..MaxPaths,
          bins : {HistogramBins}, optionC : OptionCParams,
          portfolio : PortfolioParams] :
     (HasVariance(c.optionC) /\ HasVariance(c.portfolio))
        => c.trials * c.years <= MaxJointTrialYears}

\* the locals before the callback has run; optionC_drawn and portfolio_drawn
\* are the values randomNormal has returned for each distribution since the
\* callback started
NoLocals ==
  [i |-> 0, year |-> 0, phase |-> 0, rnFor |-> "none", u1 |-> 0, u2 |-> 0,
   drew |-> FALSE,
   optionC_drawn |-> <<>>, portfolio_drawn |-> <<>>,
   optionC_return |-> Num(0), portfolio_return |-> Num(0),
   optionC_value |-> Num(0), portfolio_value |-> Num(0),
   optionC_path |-> <<>>, portfolio_path |-> <<>>,
   optionC_results |-> <<>>, portfolio_results |-> <<>>,
   optionC_paths |-> <<>>, portfolio_paths |-> <<>>]

\* no bond analysed
NoBond ==
  [state |-> "none", couponRate |-> Num(0), maturity |-> 0, ytm |-> Num(0),
   frequency |-> 0, macaulayDuration |-> Undefined,
   modifiedDuration |-> Undefined, convexity |-> Undefined,
   price |-> Undefined, yieldChange |-> Undefined, priceChange |-> Undefined]

\* no array summarised
NoStat ==
  [state |-> "none", data |-> <<>>, q1 |-> Num(0), q2 |-> Num(0),
   p1 |-> Undefined, p2 |-> Undefined, histogram |-> <<>>]

\* the chat of a component in which nothing has been sent: useState(false),
\* useState([]), useState(''), useState(false), useState(false)
NoChat ==
  [snapshot |-> 0, chatOpen |-> FALSE, chatMessages |-> <<>>,
   inputMessage |-> <<>>, isLoadingResponse |-> FALSE,
   hasShownWelcome |-> FALSE, awaiting |-> {}, sent |-> 0]

\* the component after it is mounted
Mounted ==
  /\ simulationResults = Null
  /\ isSimulating = FALSE
  /\ timers = 0
  /\ pc = "idle"
  /\ loc = NoLocals

\* One simulation run, from the click to the stored results, for every
\* configuration of Configs
Init ==
  /\ cfg \in Configs
  /\ Mounted
  /\ clicksLeft = 1
  /\ bond = NoBond
  /\ stat = NoStat
  /\ chat = NoChat

\* ------------------------------------------------------------------------
\* runMonteCarloSimulation
\* ------------------------------------------------------------------------

\* a button that stays enabled while a simulation is pending
ClickNotDisabled ==
  /\ pc = "idle"
  /\ clicksLeft > 0
  /\ isSimulating' = TRUE
  /\ timers' = timers + 1
  /\ clicksLeft' = clicksLeft - 1
  /\ UNCHANGED <<cfg, simulationResults, pc, loc, bond, stat, chat>>

\* A click on the Run Simulation button (disabled while isSimulating):
\* setIsSimulating(true); setTimeout(callback, 100)
Click ==
  /\ pc = "idle"
  /\ ~isSimulating
  /\ clicksLeft > 0
  /\ isSimulating' = TRUE
  /\ timers' = timers + 1
  /\ clicksLeft' = clicksLeft - 1
  /\ UNCHANGED <<cfg, simulationResults, pc, loc, bond, stat, chat>>

\* a callback that calls setIsSimulating(false) first
TimerFiresClearsFlag ==
  /\ pc = "idle"
  /\ timers > 0
  /\ timers' = timers - 1
  /\ isSimulating' = FALSE
  /\ loc' = [NoLocals EXCEPT !.phase = 1]
  /\ pc' = "loop"
  /\ UNCHANGED <<cfg, simulationResults, clicksLeft, bond, stat, chat>>

\* The timer fires: the callback declares its arrays and enters the first loop
TimerFires ==
  /\ pc = "idle"
  /\ timers > 0
  /\ timers' = timers - 1
  /\ loc' = [NoLocals EXCEPT !.phase = 1]
  /\ pc' = "loop"
  /\ UNCHANGED <<cfg, simulationResults, isSimulating, clicksLeft, bond, stat, chat>>

\* a first loop bounded by pathsToShow alone
FirstLoopLimitNoMin(c) == c.pathsToShow

\* the bound of the first loop: Math.min(trials, pathsToShow)
FirstLoopLimit(c) == Min(c.trials, c.pathsToShow)

\* a second loop that starts over at trial 0
SecondLoopStartZero(c) == 0

\* the first value of i in the second loop: let i = pathsToShow
SecondLoopStart(c) == c.pathsToShow

\* a year loop that stops one year early
YearLoopStopsEarly(l, c) == l.year < c.years

\* the condition of the year loops: year <= years
YearLoopContinues(l, c) == l.year <= c.years

\* Head of the first loop: for (i = 0; i < Math.min(trials, pathsToShow); i++)
\* and, when it ends, the initialisation i = pathsToShow of the second loop
Loop1 ==
  /\ pc = "loop"
  /\ loc.phase = 1
  /\ IF loc.i < FirstLoopLimit(cfg)
     THEN /\ loc' = [loc EXCEPT
                       !.optionC_path = <<[year |-> 0, value |-> Num(initialInvestment)]>>,
                       !.portfolio_path = <<[year |-> 0, value |-> Num(initialInvestment)]>>,
                       !.optionC_value = Num(initialInvestment),
                       !.portfolio_value = Num(initialInvestment),
                       !.year = 1]
          /\ pc' = "year"
     ELSE /\ loc' = [loc EXCEPT !.phase = 2, !.i = SecondLoopStart(cfg)]
          /\ pc' = "loop"
  /\ UNCHANGED <<cfg, simulationResults, isSimulating, timers, clicksLeft, bond, stat, chat>>

\* a second loop that does not set the running values again
Loop2KeepsValues ==
  /\ pc = "loop"
  /\ loc.phase = 2
  /\ IF loc.i < cfg.trials
     THEN /\ loc' = [loc EXCEPT !.year = 1]
          /\ pc' = "year"
     ELSE /\ loc' = loc
          /\ pc' = "sort"
  /\ UNCHANGED <<cfg, simulationResults, isSimulating, timers, clicksLeft, bond, stat, chat>>

\* Head of the second loop: for (i = pathsToShow; i < trials; i++)
Loop2 ==
  /\ pc = "loop"
  /\ loc.phase = 2
  /\ IF loc.i < cfg.trials
     THEN /\ loc' = [loc EXCEPT
                       !.optionC_value = Num(initialInvestment),
                       !.portfolio_value = Num(initialInvestment),
                       !.year = 1]
          /\ pc' = "year"
     ELSE /\ loc' = loc
          /\ pc' = "sort"
  /\ UNCHANGED <<cfg, simulationResults, isSimulating, timers, clicksLeft, bond, stat, chat>>

\* Head of the year loop: for (year = 1; year <= years; year++); when it is
\* entered randomNormal is called for option C, when it ends the trial's
\* results (and, in the first loop, its paths) are pushed and i++ is done
YearLoop ==
  /\ pc = "year"
  /\ IF YearLoopContinues(loc, cfg)
     THEN /\ loc' = [loc EXCEPT !.rnFor = "optionC", !.u1 = 0, !.u2 = 0]
          /\ pc' = "u1"
     ELSE /\ loc' = [loc EXCEPT
                       !.optionC_paths =
                          IF loc.phase = 1 THEN Append(@, loc.optionC_path) ELSE @,
                       !.portfolio_paths =
                          IF loc.phase = 1 THEN Append(@, loc.portfolio_path) ELSE @,
                       !.optionC_results = Append(@, loc.optionC_value),
                       !.portfolio_results = Append(@, loc.portfolio_value),
                       !.optionC_path = <<>>,
                       !.portfolio_path = <<>>,
                       !.optionC_value = Num(0),
                       !.portfolio_value = Num(0),
                       !.year = 0,
                       !.i = @ + 1]
          /\ pc' = "loop"
  /\ UNCHANGED <<cfg, simulationResults, isSimulating, timers, clicksLeft, bond, stat, chat>>

\* a loop that never draws again
DrawsOnce(u) == FALSE

\* the condition of randomNormal's two loops, while (u === 0), tested on
\* the value just drawn
DrawsAgain(u) == u = 0

\* randomNormal, one iteration of: while (u1 === 0) u1 = Math.random();
DrawU1 ==
  /\ pc = "u1"
  /\ loc.u1 = 0
  /\ \E r \in Uniforms :
       /\ loc' = [loc EXCEPT !.u1 = r, !.drew = TRUE]
       /\ pc' = IF DrawsAgain(r) THEN "u1" ELSE "u2"
  /\ UNCHANGED <<cfg, simulationResults, isSimulating, timers, clicksLeft, bond, stat, chat>>

\* randomNormal, one iteration of: while (u2 === 0) u2 = Math.random();
DrawU2 ==
  /\ pc = "u2"
  /\ loc.u2 = 0
  /\ \E r \in Uniforms :
       /\ loc' = [loc EXCEPT !.u2 = r, !.drew = TRUE]
       /\ pc' = IF DrawsAgain(r) THEN "u2" ELSE "boxmuller"
  /\ UNCHANGED <<cfg, simulationResults, isSimulating, timers, clicksLeft, bond, stat, chat>>

\* a caller that gives the value drawn for the portfolio to option C too
ReturnNormalShared(l, value) ==
  IF l.rnFor = "optionC"
  THEN [l EXCEPT !.optionC_return = value, !.optionC_drawn = Append(@, value),
                 !.rnFor = "portfolio", !.u1 = 0, !.u2 = 0]
  ELSE [l EXCEPT !.portfolio_return = value, !.portfolio_drawn = Append(@, value),
                 !.optionC_return = value,
                 !.rnFor = "none", !.u1 = 0, !.u2 = 0]

\* what the caller does with the value randomNormal returns: it is option C's
\* return, followed by the call of randomNormal for the portfolio, or it is
\* the portfolio's return
ReturnNormal(l, value) ==
  IF l.rnFor = "optionC"
  THEN [l EXCEPT !.optionC_return = value, !.optionC_drawn = Append(@, value),
                 !.rnFor = "portfolio", !.u1 = 0, !.u2 = 0]
  ELSE [l EXCEPT !.portfolio_return = value, !.portfolio_drawn = Append(@, value),
                 !.rnFor = "none", !.u1 = 0, !.u2 = 0]

\* randomNormal after its two loops: z0 is computed from u1 and u2 and
\* z0 * stdDev + mean is returned to the caller
EvaluateBoxMuller ==
  /\ pc = "boxmuller"
  /\ LET p == IF loc.rnFor = "optionC" THEN cfg.optionC ELSE cfg.portfolio
         value == BoxMuller(loc.u1, loc.u2, p.mean, p.stdDev)
     IN  loc' = ReturnNormal(loc, value)
  /\ pc' = IF loc.rnFor = "optionC" THEN "u1" ELSE "compound"
  /\ UNCHANGED <<cfg, simulationResults, isSimulating, timers, clicksLeft, bond, stat, chat>>

\* a loop body that pushes the value of the year before on the paths
CompoundPushesStale ==
  /\ pc = "compound"
  /\ LET cv == Mul(loc.optionC_value, Add(Num(1), loc.optionC_return))
         pv == Mul(loc.portfolio_value, Add(Num(1), loc.portfolio_return))
     IN  loc' = [loc EXCEPT
                   !.optionC_value = cv,
                   !.portfolio_value = pv,
                   !.optionC_path =
                      IF loc.phase = 1
                      THEN Append(@, [year |-> loc.year, value |-> loc.optionC_value])
                      ELSE @,
                   !.portfolio_path =
                      IF loc.phase = 1
                      THEN Append(@, [year |-> loc.year, value |-> loc.portfolio_value])
                      ELSE @,
                   !.optionC_return = Num(0),
                   !.portfolio_return = Num(0),
                   !.year = @ + 1]
  /\ pc' = "year"
  /\ UNCHANGED <<cfg, simulationResults, isSimulating, timers, clicksLeft, bond, stat, chat>>

\* Body of the year loop after the two draws: compound the returns, in the
\* first loop push the points on the paths; then year++
Compound ==
  /\ pc = "compound"
  /\ LET cv == Mul(loc.optionC_value, Add(Num(1), loc.optionC_return))
         pv == Mul(loc.portfolio_value, Add(Num(1), loc.portfolio_return))
     IN  loc' = [loc EXCEPT
                   !.optionC_value = cv,
                   !.portfolio_value = pv,
                   !.optionC_path =
                      IF loc.phase = 1
                      THEN Append(@, [year |-> loc.year, value |-> cv]) ELSE @,
                   !.portfolio_path =
                      IF loc.phase = 1
                      THEN Append(@, [year |-> loc.year, value |-> pv]) ELSE @,
                   !.optionC_return = Num(0),
                   !.portfolio_return = Num(0),
                   !.year = @ + 1]
  /\ pc' = "year"
  /\ UNCHANGED <<cfg, simulationResults, isSimulating, timers, clicksLeft, bond, stat, chat>>

\* optionC_results.sort(...); portfolio_results.sort(...)
SortResults ==
  /\ pc = "sort"
  /\ loc' = [loc EXCEPT !.optionC_results = SortAscending(@),
                        !.portfolio_results = SortAscending(@)]
  /\ pc' = "publish"
  /\ UNCHANGED <<cfg, simulationResults, isSimulating, timers, clicksLeft, bond, stat, chat>>

\* the object passed to setSimulationResults
Results(l, c) ==
  [optionC |->
     [p5 |-> getPercentile(l.optionC_results, Rat(5, 100)),
      p50 |-> getPercentile(l.optionC_results, Rat(50, 100)),
      p95 |-> getPercentile(l.optionC_results, Rat(95, 100)),
      histogram |-> createHistogram(l.optionC_results, c.bins),
      paths |-> l.optionC_paths],
   portfolio |->
     [p5 |-> getPercentile(l.portfolio_results, Rat(5, 100)),
      p50 |-> getPercentile(l.portfolio_results, Rat(50, 100)),
      p95 |-> getPercentile(l.portfolio_results, Rat(95, 100)),
      histogram |-> createHistogram(l.portfolio_results, c.bins),
      paths |-> l.portfolio_paths],
   avgPathData |-> AvgPathData(c.years, c.optionC.mean, c.portfolio.mean)]

\* a callback that keeps the paths of the previous run in front of the new
PublishKeepsPaths ==
  /\ pc = "publish"
  /\ IF cfg.bins < 0
     THEN UNCHANGED <<simulationResults, isSimulating>>
     ELSE /\ simulationResults' =
               IF simulationResults = Null THEN <<Results(loc, cfg)>>
               ELSE <<[Results(loc, cfg) EXCEPT
                         !.optionC.paths = simulationResults[1].optionC.paths \o @]>>
          /\ isSimulating' = FALSE
  /\ pc' = "idle"
  /\ loc' = [NoLocals EXCEPT !.drew = loc.drew]
  /\ UNCHANGED <<cfg, timers, clicksLeft, bond, stat, chat>>

\* The rest of the callback: histograms, percentiles, avgPathData,
\* setSimulationResults(...), setIsSimulating(false).  Array(bins) throws a
\* RangeError for a negative length, which ends the callback there.
Publish ==
  /\ pc = "publish"
  /\ IF cfg.bins < 0
     THEN UNCHANGED <<simulationResults, isSimulating>>
     ELSE /\ simulationResults' = <<Results(loc, cfg)>>
          /\ isSimulating' = FALSE
  /\ pc' = "idle"
  /\ loc' = [NoLocals EXCEPT !.drew = loc.drew]
  /\ UNCHANGED <<cfg, timers, clicksLeft, bond, stat, chat>>

Next ==
  \/ Click
  \/ TimerFires
  \/ Loop1
  \/ Loop2
  \/ YearLoop
  \/ DrawU1
  \/ DrawU2
  \/ EvaluateBoxMuller
  \/ Compound
  \/ SortResults
  \/ Publish

Spec == Init /\ [][Next]_vars

\* ------------------------------------------------------------------------
\* The callback of the earlier snapshot: one loop over the trials, no paths.
\* `normals` is the sequence of values its calls of randomNormal return.
\* ------------------------------------------------------------------------

\* for (let year = 0; year < years; year++) { two draws; two products },
\* returning the two values and the position of the next draw
RECURSIVE SingleLoopYears(_, _, _, _, _, _)
SingleLoopYears(normals, next, year, years, optionC_value, portfolio_value) ==
  IF ~(year < years) THEN <<optionC_value, portfolio_value, next>>
  ELSE LET optionC_return == normals[next]
           portfolio_return == normals[next + 1]
       IN  SingleLoopYears(normals, next + 2, year + 1, years,
                           Mul(optionC_value, Add(Num(1), optionC_return)),
                           Mul(portfolio_value, Add(Num(1), portfolio_return)))

\* for (let i = 0; i < trials; i++) { ...; push; push }
RECURSIVE SingleLoopTrials(_, _, _, _, _, _)
SingleLoopTrials(normals, next, i, c, optionC_results, portfolio_results) ==
  IF ~(i < c.trials)
  THEN [optionC_results |-> optionC_results,
        portfolio_results |-> portfolio_results,
        next |-> next]
  ELSE LET t == SingleLoopYears(normals, next, 0, c.years,
                                Num(initialInvestment), Num(initialInvestment))
       IN  SingleLoopTrials(normals, t[3], i + 1, c,
                            Append(optionC_results, t[1]),
                            Append(portfolio_results, t[2]))

SingleLoop(normals, c) == SingleLoopTrials(normals, 1, 0, c, <<>>, <<>>)

\* the object the earlier snapshot passes to setSimulationResults
SingleLoopStored(normals, c) ==
  LET r == SingleLoop(normals, c)
      optionC_results == SortAscending(r.optionC_results)
      portfolio_results == SortAscending(r.portfolio_results)
  IN  [optionC |->
         [p5 |-> getPercentile(optionC_results, Rat(5, 100)),
          p50 |-> getPercentile(optionC_results, Rat(50, 100)),
          p95 |-> getPercentile(optionC_results, Rat(95, 100)),
          histogram |-> createHistogram(optionC_results, c.bins)],
       portfolio |->
         [p5 |-> getPercentile(portfolio_results, Rat(5, 100)),
          p50 |-> getPercentile(portfolio_results, Rat(50, 100)),
          p95 |-> getPercentile(portfolio_results, Rat(95, 100)),
          histogram |-> createHistogram(portfolio_results, c.bins)]]

\* ------------------------------------------------------------------------
\* The simulation with configurations that are not valid: a trial, year or
\* bin count that is not positive, a negative standard deviation
\* ------------------------------------------------------------------------

InvalidConfiguration(c) ==
  \/ c.trials <= 0
  \/ c.years <= 0
  \/ c.bins <= 0
  \/ Less(c.optionC.stdDev, Num(0))
  \/ Less(c.portfolio.stdDev, Num(0))

InvalidConfigs ==
  {c \in [trials : {-1, 0, 1, 2}, years : {0, 1}, pathsToShow : {0, 1},
          bins : {-1, 0, HistogramBins},
          optionC : {[mean |-> Rat(9, 100), stdDev |-> Rat(12, 100)],
                     [mean |-> Rat(9, 100), stdDev |-> Rat(-12, 100)]},
          portfolio : {[mean |-> Num(0), stdDev |-> Num(0)]}] :
     InvalidConfiguration(c)}

InitInvalid ==
  /\ cfg \in InvalidConfigs
  /\ Mounted
  /\ clicksLeft = 1
  /\ bond = NoBond
  /\ stat = NoStat
  /\ chat = NoChat

SpecInvalid == InitInvalid /\ [][Next]_vars

\* ------------------------------------------------------------------------
\* Several simulation runs, one click after the other
\* ------------------------------------------------------------------------

MaxRuns == 2

MaxRunTrialYears == 1

RunConfigs == {c \in Configs : c.trials * c.years <= MaxRunTrialYears}

InitRuns ==
  /\ cfg \in RunConfigs
  /\ Mounted
  /\ clicksLeft = MaxRuns
  /\ bond = NoBond
  /\ stat = NoStat
  /\ chat = NoChat

SpecRuns == InitRuns /\ [][Next]_vars

\* the positions of the callback
ControlPoints ==
  {"loop", "year", "u1", "u2", "boxmuller", "compound", "sort", "publish", "idle"}

\* The timer or its callback moves to another position.  The event loop
\* runs a timer that is due, and a callback that has started runs to its
\* end; a loop of randomNormal is left when Math.random() returns a value
\* other than 0, which it does sooner or later.
ControlAdvances ==
  /\ pc = "idle" => timers > 0
  /\ pc' \in ControlPoints

\* several runs, the user free to click or not, the timer and the callback
\* making progress
SpecLifecycle == InitRuns /\ [][Next]_vars /\ WF_pc(ControlAdvances)

\* ------------------------------------------------------------------------
\* The bond functions applied to bounded inputs
\* ------------------------------------------------------------------------

MaxMaturity == 3

CouponRates == {Num(0), Rat(1, 20), Rat(1, 10)}

Yields == {Num(-2), Num(-1), Rat(-1, 2), Num(0), Rat(1, 2), Num(1)}

Frequencies == {0, 1, 2}

\* the configuration of the specifications that run no simulation
NoSimulation ==
  [trials |-> 1, years |-> 1, pathsToShow |-> 0, bins |-> HistogramBins,
   optionC |-> [mean |-> Num(0), stdDev |-> Num(0)],
   portfolio |-> [mean |-> Num(0), stdDev |-> Num(0)]]

InitBond ==
  /\ cfg = NoSimulation
  /\ Mounted
  /\ clicksLeft = 0
  /\ stat = NoStat
  /\ chat = NoChat
  /\ \E cr \in CouponRates, m \in 0..MaxMaturity, y \in Yields, f \in Frequencies :
       bond = [NoBond EXCEPT !.state = "input", !.couponRate = cr,
                             !.maturity = m, !.ytm = y, !.frequency = f]

\* bondAnalytics: the three functions called for one bond
BondAnalytics ==
  /\ bond.state = "input"
  /\ LET macDuration ==
           calculateDuration(bond.couponRate, bond.maturity, bond.ytm, bond.frequency)
     IN  bond' = [bond EXCEPT
                    !.state = "done",
                    !.macaulayDuration = macDuration,
                    !.modifiedDuration =
                       calculateModifiedDuration(macDuration, bond.ytm, bond.frequency),
                    !.convexity =
                       calculateConvexity(bond.couponRate, bond.maturity, bond.ytm,
                                          bond.frequency)]
  /\ UNCHANGED <<cfg, simulationResults, isSimulating, timers, clicksLeft, pc, loc, stat, chat>>

NextBond == BondAnalytics

SpecBond == InitBond /\ [][NextBond]_vars

\* ------------------------------------------------------------------------
\* priceChangeWithConvexity applied to bounded inputs
\* ------------------------------------------------------------------------

Prices == {Num(-100), Num(0), Rat(199, 2), Num(100)}

ModifiedDurations == {Num(-1), Num(0), Rat(7, 2), Num(8)}

Convexities == {Num(-3), Num(0), Rat(151, 2)}

YieldChanges == {Rat(-1, 100), Num(0), Rat(1, 100)}

InitPrice ==
  /\ cfg = NoSimulation
  /\ Mounted
  /\ clicksLeft = 0
  /\ stat = NoStat
  /\ chat = NoChat
  /\ \E p \in Prices, md \in ModifiedDurations, cx \in Convexities, dy \in YieldChanges :
       bond = [NoBond EXCEPT !.state = "priceInput", !.price = p,
                             !.modifiedDuration = md, !.convexity = cx,
                             !.yieldChange = dy]

\* priceChangeWithConvexity(price, modDuration, convexity, yieldChange)
PriceChange ==
  /\ bond.state = "priceInput"
  /\ bond' = [bond EXCEPT
                !.state = "priced",
                !.priceChange =
                   priceChangeWithConvexity(bond.price, bond.modifiedDuration,
                                            bond.convexity, bond.yieldChange)]
  /\ UNCHANGED <<cfg, simulationResults, isSimulating, timers, clicksLeft, pc, loc, stat, chat>>

NextPrice == PriceChange

SpecPrice == InitPrice /\ [][NextPrice]_vars

\* ------------------------------------------------------------------------
\* getPercentile and createHistogram applied to bounded inputs
\* ------------------------------------------------------------------------

MaxLen == 3

MaxValue == 2

Quantiles == {Num(0), Rat(5, 100), Rat(50, 100), Rat(95, 100), Num(1)}

IsAscending(s) == \A j \in 1..(Len(s) - 1) : Leq(s[j], s[j + 1])

\* the non-empty ascending arrays of at most MaxLen values of 0..MaxValue
SortedArrays ==
  UNION {{s \in [1..n -> {Num(v) : v \in 0..MaxValue}] : IsAscending(s)} : n \in 1..MaxLen}

InitStat ==
  /\ cfg = NoSimulation
  /\ Mounted
  /\ clicksLeft = 0
  /\ bond = NoBond
  /\ chat = NoChat
  /\ \E d \in SortedArrays, qa \in Quantiles, qb \in Quantiles :
       /\ Less(qa, qb)
       /\ stat = [NoStat EXCEPT !.state = "input", !.data = d, !.q1 = qa, !.q2 = qb]

\* getPercentile(arr, q) for the two quantiles
Percentiles ==
  /\ stat.state = "input"
  /\ stat' = [stat EXCEPT !.state = "percentiles",
                          !.p1 = getPercentile(stat.data, stat.q1),
                          !.p2 = getPercentile(stat.data, stat.q2)]
  /\ UNCHANGED <<cfg, simulationResults, isSimulating, timers, clicksLeft, pc, loc, bond, chat>>

\* createHistogram(arr, name, color)
Histogram ==
  /\ stat.state = "percentiles"
  /\ stat' = [stat EXCEPT !.state = "done",
                          !.histogram = createHistogram(stat.data, cfg.bins)]
  /\ UNCHANGED <<cfg, simulationResults, isSimulating, timers, clicksLeft, pc, loc, bond, chat>>

NextStat ==
  \/ Percentiles
  \/ Histogram

SpecStat == InitStat /\ [][NextStat]_vars

\* ------------------------------------------------------------------------
\* The chat: sendMessageToGemini, handleSendMessage and the welcome effect
\* ------------------------------------------------------------------------

\* calls of sendMessageToGemini that are explored
MaxRequests == 2

\* the two versions of the component: 1 has no welcome effect, 2 has it
Snapshots == {1, 2}

\* strings are sequences of characters; what the user types into the input
Inputs == {<<>>, <<" ">>, <<"q">>, <<" ", "q", " ">>}

RECURSIVE trimStart(_)
trimStart(s) == IF s # <<>> /\ Head(s) = " " THEN trimStart(Tail(s)) ELSE s

RECURSIVE trimEnd(_)
trimEnd(s) ==
  IF s # <<>> /\ s[Len(s)] = " " THEN trimEnd(SubSeq(s, 1, Len(s) - 1)) ELSE s

\* String.prototype.trim
trim(s) == trimEnd(trimStart(s))

\* a string is truthy when it is not empty
Truthy(s) == s # <<>>

\* the messages of the quick-question buttons
QuickQuestions(snapshot) ==
  IF snapshot = 1
    THEN {<<"Y", "T", "M">>, <<"M", "C">>, <<"r", "i", "s", "k">>}
    ELSE {<<"2", "0">>, <<"Y", "T", "M">>, <<"d", "i", "v">>, <<"M", "C">>}

welcomeMessage == [role |-> "assistant", content |-> <<"X", "i", "n">>]

\* "I apologize, but I couldn't generate a response. Please try again."
Apology == <<"I", " ", "a", "p", "o", "l", "o", "g", "i", "z", "e">>

\* What happens to a request: fetch rejects, response.json() throws, or the
\* parsed data has a text (possibly empty) or none
Outcomes ==
  {[kind |-> "fetchRejects", message |-> <<"f">>],
   [kind |-> "jsonThrows", message |-> <<"j">>],
   [kind |-> "data", text |-> <<"a">>],
   [kind |-> "data", text |-> <<>>],
   [kind |-> "dataWithoutText", text |-> <<>>]}

\* data.candidates?.[0]?.content?.parts?.[0]?.text || "I apologize, ..."
aiResponse(data) ==
  IF data.kind = "data" /\ Truthy(data.text) THEN data.text ELSE Apology

\* `Error: ${error.message}. Please try again.`
ErrorContent(error) ==
  <<"E", "r", "r", "o", "r", ":", " ">> \o error.message
    \o <<".", " ", "P", "l", "e", "a", "s", "e">>

\* an effect that tests chatOpen alone
welcomeEffectOnEveryRender(c) ==
  IF c.snapshot = 2 /\ c.chatOpen
    THEN [c EXCEPT !.chatMessages = <<welcomeMessage>>, !.hasShownWelcome = TRUE]
    ELSE c

\* the welcome effect, run after a render of the component
welcomeEffect(c) ==
  IF c.snapshot = 2 /\ c.chatOpen /\ ~c.hasShownWelcome /\ c.chatMessages = <<>>
    THEN [c EXCEPT !.chatMessages = <<welcomeMessage>>, !.hasShownWelcome = TRUE]
    ELSE c

ChatOnly ==
  UNCHANGED <<cfg, simulationResults, isSimulating, timers, clicksLeft, pc, loc,
              bond, stat>>

InitChat ==
  /\ cfg = NoSimulation
  /\ Mounted
  /\ clicksLeft = 0
  /\ bond = NoBond
  /\ stat = NoStat
  /\ \E s \in Snapshots : chat = [NoChat EXCEPT !.snapshot = s]

\* the chat button: setChatOpen(true)
OpenChat ==
  /\ ~chat.chatOpen
  /\ chat' = welcomeEffect([chat EXCEPT !.chatOpen = TRUE])
  /\ ChatOnly

\* the X button of the chat card: setChatOpen(false)
CloseChat ==
  /\ chat.chatOpen
  /\ chat' = welcomeEffect([chat EXCEPT !.chatOpen = FALSE])
  /\ ChatOnly

\* onChange of the input, which is disabled while isLoadingResponse
ChangeInput ==
  /\ chat.chatOpen
  /\ ~chat.isLoadingResponse
  /\ \E v \in Inputs :
       /\ v # chat.inputMessage
       /\ chat' = welcomeEffect([chat EXCEPT !.inputMessage = v])
  /\ ChatOnly

\* sendMessageToGemini up to its first await: the flag is set and the request
\* is sent
sendMessageToGemini(c, message) ==
  [c EXCEPT !.isLoadingResponse = TRUE,
            !.awaiting = @ \cup {[id |-> c.sent + 1, message |-> message]},
            !.sent = @ + 1]

\* the form is submitted
handleSendMessage ==
  /\ chat.chatOpen
  /\ chat.sent < MaxRequests
  /\ Truthy(trim(chat.inputMessage)) /\ ~chat.isLoadingResponse
  /\ chat' = welcomeEffect(sendMessageToGemini(chat, trim(chat.inputMessage)))
  /\ ChatOnly

\* a quick-question button, rendered while chatMessages.length === 0
QuickQuestion ==
  /\ chat.chatOpen
  /\ chat.sent < MaxRequests
  /\ chat.chatMessages = <<>>
  /\ \E m \in QuickQuestions(chat.snapshot) :
       chat' = welcomeEffect(sendMessageToGemini(chat, m))
  /\ ChatOnly

\* the two messages a request appends when it settles
Appended(message, outcome) ==
  <<[role |-> "user", content |-> message],
    [role |-> "assistant",
     content |-> IF outcome.kind \in {"data", "dataWithoutText"}
                   THEN aiResponse(outcome)
                   ELSE ErrorContent(outcome)]>>

\* an update that sets the two messages instead of appending them to prev
SettledReplaces(c, r, outcome) ==
  [c EXCEPT !.chatMessages = Appended(r.message, outcome),
            !.isLoadingResponse = FALSE,
            !.inputMessage = <<>>,
            !.awaiting = @ \ {r}]

\* a version in which setIsLoadingResponse(false) and setInputMessage('') are
\* the last statements of the try block
SettledInsideTry(c, r, outcome) ==
  [c EXCEPT !.chatMessages = @ \o Appended(r.message, outcome),
            !.isLoadingResponse =
               IF outcome.kind \in {"data", "dataWithoutText"} THEN FALSE ELSE @,
            !.inputMessage =
               IF outcome.kind \in {"data", "dataWithoutText"} THEN <<>> ELSE @,
            !.awaiting = @ \ {r}]

\* the rest of sendMessageToGemini, after the response or the error arrived
Settled(c, r, outcome) ==
  [c EXCEPT !.chatMessages = @ \o Appended(r.message, outcome),
            !.isLoadingResponse = FALSE,
            !.inputMessage = <<>>,
            !.awaiting = @ \ {r}]

Settle ==
  /\ \E r \in chat.awaiting, outcome \in Outcomes :
       chat' = welcomeEffect(Settled(chat, r, outcome))
  /\ ChatOnly

NextChat ==
  \/ OpenChat
  \/ CloseChat
  \/ ChangeInput
  \/ handleSendMessage
  \/ QuickQuestion
  \/ Settle

SpecChat == InitChat /\ [][NextChat]_vars

\* ------------------------------------------------------------------------
\* Properties
\* ------------------------------------------------------------------------

RECURSIVE SumCounts(_)
SumCounts(h) == IF h = <<>> THEN 0 ELSE Head(h).count + SumCounts(Tail(h))

\* the stored results, when there are some
Stored == simulationResults[1]

LoopsFinished == pc \in {"sort", "publish"}

\* C1: the counts of each histogram of a stored result sum to the number of
\* trials, also when all terminal values are equal (max = min).
C1_HistogramCountsSumToTrials ==
  simulationResults # Null =>
    /\ SumCounts(Stored.optionC.histogram) = cfg.trials
    /\ SumCounts(Stored.portfolio.histogram) = cfg.trials

\* floor(n * q) clamped to 0..n-1, for a finite quantile q
ClampedIndex(n, q) ==
  LET index == (n * q.n) \div q.d
  IN  IF index < 0 THEN 0 ELSE IF index > n - 1 THEN n - 1 ELSE index

\* C2: for a non-empty ascending array and a quantile q in [0, 1], q = 1
\* included, getPercentile returns the element at floor(length * q) clamped
\* to the indices of the array, hence an element of the array.
C2_PercentileIsClampedElement ==
  stat.state \in {"percentiles", "done"} =>
    /\ stat.p1 = stat.data[ClampedIndex(Len(stat.data), stat.q1) + 1]
    /\ stat.p2 = stat.data[ClampedIndex(Len(stat.data), stat.q2) + 1]

\* C3: with trials <= 0, years <= 0, stdDev < 0 or bins <= 0 the simulation
\* draws no random number and stores no result.
C3_InvalidConfigurationRejected ==
  InvalidConfiguration(cfg) => (~loc.drew /\ simulationResults = Null)

\* C4: the bond functions never return NaN or Infinity.
C4_BondResultsFinite ==
  bond.state = "done" =>
    /\ IsFiniteNumber(bond.macaulayDuration)
    /\ IsFiniteNumber(bond.modifiedDuration)
    /\ IsFiniteNumber(bond.convexity)

\* C5: when the two loops have finished, each distribution has exactly
\* trials terminal values, whether pathsToShow is below trials or not.
C5_TerminalValuesLengthIsTrials ==
  LoopsFinished =>
    /\ Len(loc.optionC_results) = cfg.trials
    /\ Len(loc.portfolio_results) = cfg.trials

C5_Witness ==
  /\ pc = "sort"
  /\ 0 < cfg.pathsToShow
  /\ cfg.pathsToShow < cfg.trials

\* C6: the number of paths captured per distribution is the smaller of
\* pathsToShow and trials.
C6_PathCountIsMin ==
  LET expected == IF cfg.pathsToShow < cfg.trials THEN cfg.pathsToShow ELSE cfg.trials
  IN  /\ LoopsFinished =>
           /\ Len(loc.optionC_paths) = expected
           /\ Len(loc.portfolio_paths) = expected
      /\ simulationResults # Null =>
           /\ Len(Stored.optionC.paths) = expected
           /\ Len(Stored.portfolio.paths) = expected

C6_Witness ==
  /\ simulationResults # Null
  /\ cfg.pathsToShow > cfg.trials
  /\ Len(Stored.optionC.paths) = cfg.trials

WellFormedPath(path) ==
  /\ Len(path) = cfg.years + 1
  /\ \A k \in 1..Len(path) : path[k].year = k - 1
  /\ path[1].value = Num(initialInvestment)

AllPaths(paths) == \A k \in 1..Len(paths) : WellFormedPath(paths[k])

\* C7: every captured path has years + 1 points, with the years 0, 1, ...,
\* years in that order, and starts at the initial investment.
C7_PathsWellFormed ==
  /\ AllPaths(loc.optionC_paths)
  /\ AllPaths(loc.portfolio_paths)
  /\ simulationResults # Null =>
       /\ AllPaths(Stored.optionC.paths)
       /\ AllPaths(Stored.portfolio.paths)

C7_Witness ==
  /\ simulationResults # Null
  /\ cfg.years >= 2
  /\ Len(Stored.optionC.paths) >= 2
  /\ Len(Stored.portfolio.paths) >= 2

Degenerate(p) == p.mean = Num(0) /\ p.stdDev = Num(0)

AllInitial(results) ==
  \A k \in 1..Len(results) : results[k] = Num(initialInvestment)

PercentilesInitial(r) ==
  /\ r.p5 = Num(initialInvestment)
  /\ r.p50 = Num(initialInvestment)
  /\ r.p95 = Num(initialInvestment)

\* C8: for a distribution with mean = 0 and stdDev = 0 every terminal value,
\* and so every percentile, is the initial investment, whatever is drawn.
C8_DegenerateKeepsInitialValue ==
  /\ (Degenerate(cfg.optionC) /\ LoopsFinished) => AllInitial(loc.optionC_results)
  /\ (Degenerate(cfg.portfolio) /\ LoopsFinished) => AllInitial(loc.portfolio_results)
  /\ (Degenerate(cfg.optionC) /\ simulationResults # Null)
        => PercentilesInitial(Stored.optionC)
  /\ (Degenerate(cfg.portfolio) /\ simulationResults # Null)
        => PercentilesInitial(Stored.portfolio)

C8_Witness ==
  /\ simulationResults # Null
  /\ Degenerate(cfg.optionC)
  /\ Degenerate(cfg.portfolio)
  /\ cfg.trials >= 2
  /\ cfg.years >= 2
  /\ loc.drew

\* C9: for quantiles q1 < q2 of [0, 1] the percentile of q1 is at most the
\* percentile of q2.
C9_PercentileMonotone ==
  stat.state \in {"percentiles", "done"} => Leq(stat.p1, stat.p2)

\* C10: for a zero-coupon bond with a positive maturity, frequency 1 or 2
\* and ytm > -frequency, calculateDuration returns the maturity.
C10_ZeroCouponDurationIsMaturity ==
  (/\ bond.state = "done"
   /\ bond.couponRate = Num(0)
   /\ bond.maturity > 0
   /\ bond.frequency \in {1, 2}
   /\ Less(Num(-bond.frequency), bond.ytm))
    => bond.macaulayDuration = Num(bond.maturity)

C10_Witness ==
  /\ bond.state = "done"
  /\ bond.couponRate = Num(0)
  /\ bond.maturity >= 2
  /\ bond.frequency = 2
  /\ Less(Num(0), bond.ytm)
  /\ bond.macaulayDuration = Num(bond.maturity)

\* an instrument of the data model: a positive whole maturity, one or two
\* payments a year, and a yield above -frequency
ValidInstrument(b) ==
  /\ b.maturity > 0
  /\ b.frequency \in {1, 2}
  /\ Less(Num(-b.frequency), b.ytm)

\* the cash flows of a bond, in payment order: the coupon of each period
\* 1..maturity*frequency, then the principal at the final period
CashFlows(b) ==
  [t \in 1..(b.maturity * b.frequency) |->
     [t |-> t, amount |-> Mul(b.couponRate, Rat(faceValue, b.frequency))]]
  \o <<[t |-> b.maturity * b.frequency, amount |-> Num(faceValue)]>>

\* PV(t) of one cash flow
PresentValue(flow, b) ==
  Div(flow.amount, Pow(Add(Num(1), Mul(b.ytm, Rat(1, b.frequency))), flow.t))

\* the sum of the first n numbers of a sequence
RECURSIVE SumNumbers(_, _)
SumNumbers(terms, n) ==
  IF n = 0 THEN Num(0) ELSE Add(SumNumbers(terms, n - 1), terms[n])

\* the sum over all cash flows of Weight(flow) * PV(flow)
SumOverFlows(flows, b, Weight(_, _)) ==
  SumNumbers([j \in 1..Len(flows) |->
                Mul(Weight(flows[j], b), PresentValue(flows[j], b))],
             Len(flows))

UnitWeight(flow, b) == Num(1)

YearsWeight(flow, b) == Rat(flow.t, b.frequency)

ReferencePrice(b) == SumOverFlows(CashFlows(b), b, UnitWeight)

ReferenceDuration(b) ==
  Div(SumOverFlows(CashFlows(b), b, YearsWeight), ReferencePrice(b))

\* C11: for every instrument, calculateDuration returns the sum over all
\* cash flows (coupons at t = 1..periods, principal at t = periods) of
\* (t / frequency) * PV(t) divided by the price, the sum of the PV(t); the
\* principal's weight maturity is periods / frequency.
C11_DurationIsReferenceSum ==
  (bond.state = "done" /\ ValidInstrument(bond)) =>
    /\ bond.macaulayDuration = ReferenceDuration(bond)
    /\ Num(bond.maturity) = Rat(bond.maturity * bond.frequency, bond.frequency)

\* a semi-annual coupon bond of more than one year has been measured
C11_Witness ==
  /\ bond.state = "done"
  /\ ValidInstrument(bond)
  /\ bond.frequency = 2
  /\ bond.maturity > 1
  /\ Less(Num(0), bond.couponRate)
  /\ bond.ytm # Num(0)
  /\ bond.macaulayDuration = ReferenceDuration(bond)

ConvexityWeight(flow, b) == Rat(flow.t * (flow.t + 1), b.frequency * b.frequency)

ReferenceConvexity(b) ==
  LET base == Add(Num(1), Mul(b.ytm, Rat(1, b.frequency)))
  IN  Div(SumOverFlows(CashFlows(b), b, ConvexityWeight),
          Mul(ReferencePrice(b), Mul(base, base)))

\* C12: for every instrument, calculateConvexity returns the sum over all
\* cash flows (coupons at t = 1..periods, principal at t = periods) of
\* t * (t + 1) / frequency^2 * PV(t), divided by price * (1 + ytm/frequency)^2,
\* where price is the sum of the same PV(t).
C12_ConvexityIsReferenceSum ==
  (bond.state = "done" /\ ValidInstrument(bond)) =>
    bond.convexity = ReferenceConvexity(bond)

\* a semi-annual coupon bond of more than one year has its convexity
C12_Witness ==
  /\ bond.state = "done"
  /\ ValidInstrument(bond)
  /\ bond.frequency = 2
  /\ bond.maturity > 1
  /\ Less(Num(0), bond.couponRate)
  /\ bond.ytm # Num(0)
  /\ bond.convexity = ReferenceConvexity(bond)
  /\ Less(Num(0), bond.convexity)

\* C13: for an instrument with ytm > 0, a positive maturity, frequency 1 or
\* 2 and couponRate >= 0, the modified duration is strictly less than the
\* Macaulay duration it was computed from.
C13_ModifiedBelowMacaulay ==
  (/\ bond.state = "done"
   /\ ValidInstrument(bond)
   /\ Leq(Num(0), bond.couponRate)
   /\ Less(Num(0), bond.ytm)) =>
    Less(bond.modifiedDuration, bond.macaulayDuration)

\* a coupon bond with a positive yield has both durations, and they differ
C13_Witness ==
  /\ bond.state = "done"
  /\ ValidInstrument(bond)
  /\ Less(Num(0), bond.couponRate)
  /\ Less(Num(0), bond.ytm)
  /\ bond.maturity > 1
  /\ Less(bond.modifiedDuration, bond.macaulayDuration)
  /\ Less(Num(0), bond.modifiedDuration)

\* C14: for a standard fixed-coupon instrument (couponRate >= 0, positive
\* maturity, frequency 1 or 2, ytm > -frequency) calculateConvexity returns
\* a non-negative value.
C14_ConvexityNonNegative ==
  (/\ bond.state = "done"
   /\ ValidInstrument(bond)
   /\ Leq(Num(0), bond.couponRate)) =>
    Leq(Num(0), bond.convexity)

\* a bond with a negative yield above -frequency has a positive convexity
C14_Witness ==
  /\ bond.state = "done"
  /\ ValidInstrument(bond)
  /\ Leq(Num(0), bond.couponRate)
  /\ Less(bond.ytm, Num(0))
  /\ Less(Num(0), bond.convexity)

\* C16: duration is in years: for couponRate >= 0, ytm >= 0, a positive
\* whole maturity and frequency 1 or 2, calculateDuration returns d with
\* 0 < d <= maturity, never up to 2 * maturity for semi-annual payments.
C16_DurationInYears ==
  (/\ bond.state = "done"
   /\ ValidInstrument(bond)
   /\ Leq(Num(0), bond.couponRate)
   /\ Leq(Num(0), bond.ytm)) =>
    /\ Less(Num(0), bond.macaulayDuration)
    /\ Leq(bond.macaulayDuration, Num(bond.maturity))

\* a semi-annual coupon bond whose duration is below its maturity in years
C16_Witness ==
  /\ bond.state = "done"
  /\ bond.frequency = 2
  /\ bond.maturity > 1
  /\ Less(Num(0), bond.couponRate)
  /\ Leq(Num(0), bond.ytm)
  /\ Less(Num(0), bond.macaulayDuration)
  /\ Less(bond.macaulayDuration, Num(bond.maturity))

\* C15: for every price, modified duration and convexity,
\* priceChangeWithConvexity(price, modDuration, convexity, 0) is 0: a zero
\* yield change gives a zero price change.
C15_ZeroYieldChangeZeroPriceChange ==
  (bond.state = "priced" /\ bond.yieldChange = Num(0)) =>
    bond.priceChange = Num(0)

\* the function was applied to a positive price, duration and convexity
\* with a zero yield change
C15_Witness ==
  /\ bond.state = "priced"
  /\ bond.yieldChange = Num(0)
  /\ Less(Num(0), bond.price)
  /\ Less(Num(0), bond.modifiedDuration)
  /\ Less(Num(0), bond.convexity)
  /\ bond.priceChange = Num(0)

\* C19: in randomNormal both uniform variates are non-zero when the
\* Box-Muller formula is evaluated, so log is never applied to 0, whatever
\* values the uniform source returns: a draw equal to 0 is drawn again, and
\* a loop ends as soon as its draw is not 0.
C19_VariatesNonZeroAtBoxMuller ==
  [][/\ pc' = "boxmuller" => (loc'.u1 # 0 /\ loc'.u2 # 0)
     /\ pc' = "u2" => loc'.u1 # 0
     /\ pc \in {"u1", "u2"} =>
          LET drawn == IF pc = "u1" THEN loc'.u1 ELSE loc'.u2
          IN  /\ drawn = 0 => pc' = pc
              /\ drawn # 0 => pc' = (IF pc = "u1" THEN "u2" ELSE "boxmuller")]_vars

\* the formula is about to be evaluated for the portfolio's return, both
\* loops of this call of randomNormal having ended
C19_Witness ==
  /\ pc = "boxmuller"
  /\ loc.rnFor = "portfolio"
  /\ HasVariance(cfg.portfolio)
  /\ loc.u1 # 0
  /\ loc.u2 # 0

\* the number of positions of s that hold x
Occurrences(x, s) == Cardinality({j \in 1..Len(s) : s[j] = x})

\* s holds the values of r, each as many times
IsPermutationOf(s, r) ==
  /\ Len(s) = Len(r)
  /\ \A j \in 1..Len(r) : Occurrences(r[j], s) = Occurrences(r[j], r)

\* C20: before percentiles and histograms are computed each distribution's
\* terminal values are sorted ascending, and the sorted sequence is a
\* permutation of the terminal values the trials produced: sorting drops,
\* duplicates and alters no value.
C20_SortedPermutationBeforeSummary ==
  [][/\ pc = "sort" =>
          /\ IsPermutationOf(loc'.optionC_results, loc.optionC_results)
          /\ IsPermutationOf(loc'.portfolio_results, loc.portfolio_results)
     /\ pc = "publish" =>
          /\ IsAscending(loc.optionC_results)
          /\ IsAscending(loc.portfolio_results)]_vars

\* the sorted arrays of a run of several trials whose terminal values differ
C20_Witness ==
  /\ pc = "publish"
  /\ cfg.trials > 1
  /\ Less(loc.optionC_results[1], loc.optionC_results[cfg.trials])
  /\ Less(loc.portfolio_results[1], loc.portfolio_results[cfg.trials])

\* the value of the trial run k-th (k = 0, 1, ..) after y years, computed
\* from the values drawn for one distribution alone, in the order drawn
RECURSIVE ReplayValue(_, _, _, _)
ReplayValue(drawn, k, years, y) ==
  IF y = 0 THEN Num(initialInvestment)
  ELSE Mul(ReplayValue(drawn, k, years, y - 1), Add(Num(1), drawn[k * years + y]))

\* the terminal values of all trials, in the order the trials ran
ReplayResults(drawn, c) ==
  [k \in 1..c.trials |-> ReplayValue(drawn, k - 1, c.years, c.years)]

\* the captured paths
ReplayPaths(drawn, c) ==
  [k \in 1..Min(c.trials, c.pathsToShow) |->
     [y \in 1..(c.years + 1) |->
        [year |-> y - 1, value |-> ReplayValue(drawn, k - 1, c.years, y - 1)]]]

\* what is stored for one distribution, from its own draws
ReplaySummary(drawn, c) ==
  LET sorted == SortAscending(ReplayResults(drawn, c))
  IN  [p5 |-> getPercentile(sorted, Rat(5, 100)),
       p50 |-> getPercentile(sorted, Rat(50, 100)),
       p95 |-> getPercentile(sorted, Rat(95, 100)),
       histogram |-> createHistogram(sorted, c.bins),
       paths |-> ReplayPaths(drawn, c)]

\* C17: every call of randomNormal uses its own fresh uniform draws and
\* its value goes to one distribution only, so what a run stores for a
\* distribution (percentiles, histogram and paths of its terminal values)
\* is determined by the draws made for that distribution: other draws for
\* the other distribution leave it unchanged.
C17_DistributionsIndependent ==
  [][/\ (pc = "boxmuller" /\ loc.rnFor = "optionC") =>
          /\ loc'.optionC_return =
               BoxMuller(loc.u1, loc.u2, cfg.optionC.mean, cfg.optionC.stdDev)
          /\ loc'.optionC_drawn = Append(loc.optionC_drawn, loc'.optionC_return)
          /\ loc'.portfolio_drawn = loc.portfolio_drawn
          /\ loc'.portfolio_return = loc.portfolio_return
          /\ loc'.u1 = 0 /\ loc'.u2 = 0
     /\ (pc = "boxmuller" /\ loc.rnFor = "portfolio") =>
          /\ loc'.portfolio_return =
               BoxMuller(loc.u1, loc.u2, cfg.portfolio.mean, cfg.portfolio.stdDev)
          /\ loc'.portfolio_drawn = Append(loc.portfolio_drawn, loc'.portfolio_return)
          /\ loc'.optionC_drawn = loc.optionC_drawn
          /\ loc'.optionC_return = loc.optionC_return
          /\ loc'.u1 = 0 /\ loc'.u2 = 0
     /\ pc = "sort" =>
          /\ loc.optionC_results = ReplayResults(loc.optionC_drawn, cfg)
          /\ loc.portfolio_results = ReplayResults(loc.portfolio_drawn, cfg)
     /\ (pc = "publish" /\ simulationResults' # Null) =>
          /\ simulationResults'[1].optionC = ReplaySummary(loc.optionC_drawn, cfg)
          /\ simulationResults'[1].portfolio = ReplaySummary(loc.portfolio_drawn, cfg)]_vars

\* a run of several trials and years, both distributions with variance, is
\* about to store results for which the two distributions drew differently
C17_Witness ==
  /\ pc = "publish"
  /\ cfg.trials > 1
  /\ cfg.years > 1
  /\ HasVariance(cfg.optionC)
  /\ HasVariance(cfg.portfolio)
  /\ loc.optionC_drawn[1] # loc.optionC_drawn[2]
  /\ loc.portfolio_drawn[1] = loc.portfolio_drawn[2]
  /\ Len(loc.optionC_drawn) = cfg.trials * cfg.years
  /\ loc.optionC_paths = ReplayPaths(loc.optionC_drawn, cfg)

\* the object a run stores, from the fixed parameters and its own draws
ReplayStored(c, optionC_drawn, portfolio_drawn) ==
  [optionC |-> ReplaySummary(optionC_drawn, c),
   portfolio |-> ReplaySummary(portfolio_drawn, c),
   avgPathData |-> AvgPathData(c.years, c.optionC.mean, c.portfolio.mean)]

\* C18: a run keeps no state of earlier runs: what it stores is determined
\* by the fixed parameters and the values it draws, whatever is stored in
\* simulationResults and however many runs came before, so two runs with
\* the same draws store the same results; the stored object is replaced as
\* a whole at the end of a run and changed at no other step.
C18_NoCrossRunState ==
  [][/\ pc = "publish" =>
          simulationResults' =
             <<ReplayStored(cfg, loc.optionC_drawn, loc.portfolio_drawn)>>
     /\ pc # "publish" => simulationResults' = simulationResults
     /\ (pc = "idle" /\ pc' = "loop") =>
          (loc'.optionC_drawn = <<>> /\ loc'.portfolio_drawn = <<>>)]_vars

\* a later run is about to replace the stored results of an earlier run
\* with different ones
C18_Witness ==
  /\ pc = "publish"
  /\ simulationResults # Null
  /\ clicksLeft < MaxRuns - 1
  /\ Min(cfg.trials, cfg.pathsToShow) > 0
  /\ simulationResults # <<ReplayStored(cfg, loc.optionC_drawn, loc.portfolio_drawn)>>

\* the bin of the whole number v among `bins` bins between the whole
\* numbers lo < hi, in integer arithmetic
ExpectedBin(v, lo, hi, bins) ==
  LET raw == ((v - lo) * bins) \div (hi - lo)
  IN  IF raw > bins - 1 THEN bins - 1 ELSE raw

\* C21: in createHistogram with max > min every value is counted in the
\* bin min(floor((value - min) / binSize), bins - 1), an integer of
\* 0..bins-1: the maximum is counted in the last bin and the minimum in
\* bin 0; the output has exactly bins entries, in bin order, entry i with
\* the centre min + (i + 0.5) * binSize.
C21_BinIndexClamped ==
  (stat.state = "done" /\ Less(stat.data[1], stat.data[Len(stat.data)])) =>
    LET lo == stat.data[1].n
        hi == stat.data[Len(stat.data)].n
        bins == cfg.bins
        h == stat.histogram
    IN  /\ Len(h) = bins
        /\ \A i \in 0..(bins - 1) :
             /\ h[i + 1].value =
                  Add(Num(lo), Rat((2 * i + 1) * (hi - lo), 2 * bins))
             /\ h[i + 1].count =
                  Cardinality({j \in 1..Len(stat.data) :
                                 ExpectedBin(stat.data[j].n, lo, hi, bins) = i})
        /\ h[bins].count >= 1
        /\ h[1].count >= 1
        /\ SumCounts(h) = Len(stat.data)

\* a histogram of three different values: one in bin 0, one in a middle
\* bin, the maximum in the last bin
C21_Witness ==
  /\ stat.state = "done"
  /\ Len(stat.data) = 3
  /\ Less(stat.data[1], stat.data[2])
  /\ Less(stat.data[2], stat.data[3])
  /\ stat.histogram[1].count = 1
  /\ stat.histogram[cfg.bins].count = 1
  /\ \E i \in 2..(cfg.bins - 1) : stat.histogram[i].count = 1

\* each point of the k-th captured path is the point before it times
\* 1 + the return drawn for that trial and year, and the last point is the
\* terminal value of the trial: at position k while the terminal values
\* are in trial order, and an element of them once they are sorted
CompoundedPaths(paths, drawn, results) ==
  \A k \in 1..Len(paths) :
    LET path == paths[k]
        last == path[cfg.years + 1].value
    IN  /\ \A y \in 1..cfg.years :
             path[y + 1].value =
               Mul(path[y].value, Add(Num(1), drawn[(k - 1) * cfg.years + y]))
        /\ \E j \in 1..Len(results) : results[j] = last
        /\ pc # "publish" => results[k] = last

\* C22: in every captured path the point of year y in 1..years is the
\* previous point times (1 + r_y), r_y the return drawn for that trial and
\* year, and the last point is the terminal value pushed for that trial,
\* hence an element of the sorted terminal values.
C22_PathsCompoundReturns ==
  /\ CompoundedPaths(loc.optionC_paths, loc.optionC_drawn, loc.optionC_results)
  /\ CompoundedPaths(loc.portfolio_paths, loc.portfolio_drawn, loc.portfolio_results)

\* two paths of two years are captured for each distribution, the terminal
\* values are sorted, and sorting has moved the first trial's value
C22_Witness ==
  /\ pc = "publish"
  /\ cfg.years = 2
  /\ Len(loc.optionC_paths) = 2
  /\ Len(loc.portfolio_paths) = 2
  /\ loc.optionC_results[1] # loc.optionC_paths[1][3].value
  /\ loc.optionC_paths[1][2].value # loc.optionC_paths[1][1].value

\* periods * (periods + 1) / frequency^2 / (1 + ytm/frequency)^2, in which
\* the face value does not appear
PrincipalOnlyConvexity(b) ==
  LET periods == b.maturity * b.frequency
      base == Add(Num(1), Mul(b.ytm, Rat(1, b.frequency)))
  IN  Div(Rat(periods * (periods + 1), b.frequency * b.frequency), Mul(base, base))

\* C24: for a zero-coupon instrument calculateConvexity returns the
\* principal-only term periods * (periods + 1) / frequency^2 divided by
\* (1 + ytm/frequency)^2, periods = maturity * frequency, whatever the
\* face value.
C24_ZeroCouponConvexity ==
  (bond.state = "done" /\ ValidInstrument(bond) /\ bond.couponRate = Num(0)) =>
    bond.convexity = PrincipalOnlyConvexity(bond)

\* a semi-annual zero-coupon bond of several years with a non-zero yield
C24_Witness ==
  /\ bond.state = "done"
  /\ ValidInstrument(bond)
  /\ bond.couponRate = Num(0)
  /\ bond.frequency = 2
  /\ bond.maturity > 1
  /\ bond.ytm # Num(0)
  /\ bond.convexity = PrincipalOnlyConvexity(bond)

\* the values randomNormal returned in this run in the order of the calls,
\* which alternate between option C and the portfolio
NormalsDrawn(l) ==
  [n \in 1..(Len(l.optionC_drawn) + Len(l.portfolio_drawn)) |->
     IF n % 2 = 1 THEN l.optionC_drawn[(n + 1) \div 2] ELSE l.portfolio_drawn[n \div 2]]

\* the summary of one distribution without its paths
WithoutPaths(d) ==
  [p5 |-> d.p5, p50 |-> d.p50, p95 |-> d.p95, histogram |-> d.histogram]

\* C23: the two-phase callback is equivalent to the single loop of the
\* earlier snapshot: on the same sequence of normal draws both consume the
\* draws in the same order (option C, then the portfolio, per year, per
\* trial) and produce the same terminal values, percentiles and
\* histograms; the two-phase callback keeps path points for the first
\* min(pathsToShow, trials) trials only.
C23_TwoPhaseEquivalentToSingleLoop ==
  [][/\ Len(loc'.portfolio_drawn) <= Len(loc'.optionC_drawn)
     /\ Len(loc'.optionC_drawn) <= Len(loc'.portfolio_drawn) + 1
     /\ pc = "sort" =>
          LET r == SingleLoop(NormalsDrawn(loc), cfg)
          IN  /\ loc.optionC_results = r.optionC_results
              /\ loc.portfolio_results = r.portfolio_results
              /\ r.next = Len(NormalsDrawn(loc)) + 1
              /\ Len(loc.optionC_paths) = Min(cfg.pathsToShow, cfg.trials)
              /\ Len(loc.portfolio_paths) = Min(cfg.pathsToShow, cfg.trials)
     /\ (pc = "publish" /\ simulationResults' # Null) =>
          LET old == SingleLoopStored(NormalsDrawn(loc), cfg)
          IN  /\ WithoutPaths(simulationResults'[1].optionC) = old.optionC
              /\ WithoutPaths(simulationResults'[1].portfolio) = old.portfolio]_vars

\* both loops have run trials of two years, with variance in both
\* distributions, and the terminal values are those of the single loop
C23_Witness ==
  /\ pc = "sort"
  /\ 0 < cfg.pathsToShow
  /\ cfg.pathsToShow < cfg.trials
  /\ cfg.years = 2
  /\ HasVariance(cfg.optionC)
  /\ HasVariance(cfg.portfolio)
  /\ loc.optionC_results[1] # loc.optionC_results[2]
  /\ loc.optionC_results = SingleLoop(NormalsDrawn(loc), cfg).optionC_results

\* C25: a click sets isSimulating at once; the callback stores
\* simulationResults before it clears isSimulating; isSimulating is true
\* from the click until the results are stored; and every click is
\* eventually followed by a state in which isSimulating is false and
\* simulationResults holds the results of that run.
C25_SimulationLifecycle ==
  /\ [][/\ timers' > timers => isSimulating'
        /\ (timers' > 0 \/ pc' # "idle") => isSimulating'
        /\ (isSimulating /\ ~isSimulating') =>
             /\ pc = "publish"
             /\ simulationResults' =
                  <<ReplayStored(cfg, loc.optionC_drawn, loc.portfolio_drawn)>>]_vars
  /\ \A n \in 0..MaxRuns :
       (isSimulating /\ clicksLeft = n)
          ~> (~isSimulating /\ clicksLeft = n /\ simulationResults # Null
              /\ timers = 0 /\ pc = "idle")

\* the second run has ended: its results are stored and the flag is clear
C25_Witness ==
  /\ ~isSimulating
  /\ simulationResults # Null
  /\ clicksLeft = MaxRuns - 2
  /\ pc = "idle"
  /\ timers = 0

\* Simulations scheduled and not yet finished: the timers waiting to fire and
\* the callback that is running
Pending == timers + (IF pc = "idle" THEN 0 ELSE 1)

\* C26: at most one simulation is pending at any time. The button is disabled
\* while isSimulating, so a click is accepted only when nothing is pending and
\* no second timer is scheduled before the pending callback has run; every
\* accepted click's run ends with one write of simulationResults, and nothing
\* else writes it.
C26_AtMostOnePending ==
  /\ [](Pending <= 1 /\ (Pending = 1 => isSimulating))
  /\ [][/\ clicksLeft' # clicksLeft =>
             /\ clicksLeft' = clicksLeft - 1
             /\ ~isSimulating /\ Pending = 0 /\ Pending' = 1
        /\ Pending' > Pending => clicksLeft' = clicksLeft - 1
        /\ Pending' < Pending =>
             /\ Pending = 1 /\ Pending' = 0 /\ pc = "publish"
             /\ simulationResults' # Null
        /\ simulationResults' # simulationResults => Pending' < Pending]_vars

\* a second click accepted after the first simulation has stored its results
C26_Witness ==
  /\ clicksLeft = MaxRuns - 2 /\ timers = 1 /\ isSimulating
  /\ simulationResults # Null /\ pc = "idle"


\* C27: in every reachable state in which at least one request of
\* sendMessageToGemini is awaiting its response, isLoadingResponse is true
C27_LoadingWhileAwaiting ==
  chat.awaiting # {} => chat.isLoadingResponse


\* chatMessages after the optional leading welcome message
WithoutWelcome(ms) ==
  IF ms # <<>> /\ Head(ms) = welcomeMessage THEN Tail(ms) ELSE ms

\* adjacent pairs of a user's message and an assistant's message
UserAssistantPairs(ms) ==
  /\ Len(ms) % 2 = 0
  /\ \A k \in 1..(Len(ms) \div 2) :
       ms[2 * k - 1].role = "user" /\ ms[2 * k].role = "assistant"

\* the requests that have settled
SettledRequests == chat.sent - Cardinality(chat.awaiting)

\* C28: each settled request appends, in one update, the user's message
\* immediately followed by an assistant's message; chatMessages after the
\* optional welcome message consists of user/assistant pairs, two per settled
\* request, and no earlier message is removed or reordered, in whatever order
\* the requests settle.
C28_PairsAppended ==
  /\ [](/\ UserAssistantPairs(WithoutWelcome(chat.chatMessages))
        /\ Len(WithoutWelcome(chat.chatMessages)) = 2 * SettledRequests)
  /\ [][LET ms == chat.chatMessages
            ms2 == chat'.chatMessages
        IN /\ \A r \in chat.awaiting : r \notin chat'.awaiting =>
                /\ chat'.awaiting = chat.awaiting \ {r}
                /\ Len(ms2) = Len(ms) + 2
                /\ SubSeq(ms2, 1, Len(ms)) = ms
                /\ ms2[Len(ms) + 1] = [role |-> "user", content |-> r.message]
                /\ ms2[Len(ms) + 2].role = "assistant"
           /\ chat.awaiting \subseteq chat'.awaiting =>
                \/ ms2 = ms
                \/ ms = <<>> /\ ms2 = <<welcomeMessage>>]_vars

\* the second of two requests has settled while the first is still awaiting
C28_Witness ==
  /\ chat.sent = 2 /\ Len(chat.chatMessages) = 2
  /\ \E r \in chat.awaiting : r.id = 1


\* the outcomes in which the fetch rejects or reading the response throws
Failures == {o \in Outcomes : o.kind \in {"fetchRejects", "jsonThrows"}}

BeginsWithError(content) ==
  /\ Len(content) >= 6
  /\ SubSeq(content, 1, 6) = <<"E", "r", "r", "o", "r", ":">>

\* C29: a request that fails still appends the user's message followed by an
\* assistant message beginning with 'Error:', then sets isLoadingResponse to
\* false and clears inputMessage, as a request that succeeds does; once every
\* request has settled isLoadingResponse is false.
C29_ErrorsSettle ==
  /\ [](/\ chat.awaiting = {} => ~chat.isLoadingResponse
        /\ \A r \in chat.awaiting, o \in Failures :
             LET c == welcomeEffect(Settled(chat, r, o))
                 n == Len(chat.chatMessages)
             IN /\ Len(c.chatMessages) = n + 2
                /\ c.chatMessages[n + 1] = [role |-> "user", content |-> r.message]
                /\ c.chatMessages[n + 2].role = "assistant"
                /\ BeginsWithError(c.chatMessages[n + 2].content)
                /\ ~c.isLoadingResponse
                /\ c.inputMessage = <<>>)
  /\ [][Cardinality(chat'.awaiting) < Cardinality(chat.awaiting) =>
           ~chat'.isLoadingResponse /\ chat'.inputMessage = <<>>]_vars

\* the only request has failed and the chat is not loading
C29_Witness ==
  /\ chat.sent = 1 /\ chat.awaiting = {} /\ ~chat.isLoadingResponse
  /\ chat.chatMessages # <<>>
  /\ BeginsWithError(chat.chatMessages[Len(chat.chatMessages)].content)


\* how often the welcome message occurs in chatMessages
Welcomes(ms) == Cardinality({k \in 1..Len(ms) : ms[k] = welcomeMessage})

\* C30: the welcome message is added at most once, only by opening the chat
\* with chatMessages empty and hasShownWelcome false; it is then the first
\* element of chatMessages, and nothing that follows (closing, reopening,
\* sending, responses) adds it again or replaces existing messages.
C30_WelcomeOnce ==
  /\ [](/\ Welcomes(chat.chatMessages) <= 1
        /\ Welcomes(chat.chatMessages) = 1 <=> chat.hasShownWelcome
        /\ chat.hasShownWelcome => Head(chat.chatMessages) = welcomeMessage)
  /\ [][LET ms == chat.chatMessages
            ms2 == chat'.chatMessages
        IN /\ Welcomes(ms2) > Welcomes(ms) =>
                /\ ~chat.chatOpen /\ chat'.chatOpen
                /\ ms = <<>> /\ ~chat.hasShownWelcome
                /\ ms2 = <<welcomeMessage>> /\ chat'.hasShownWelcome
           /\ chat.hasShownWelcome => chat'.hasShownWelcome
           /\ Len(ms2) >= Len(ms) /\ SubSeq(ms2, 1, Len(ms)) = ms]_vars

\* the chat is closed again after the welcome message and every request
C30_Witness ==
  /\ ~chat.chatOpen /\ chat.hasShownWelcome
  /\ Len(chat.chatMessages) = 1 + 2 * MaxRequests
  /\ Head(chat.chatMessages) = welcomeMessage


============================================================================
